---------------------------- MODULE Spec2Model ----------------------------
(***************************************************************************)
(* Model of the SP3 / broadcast orbit comparison pipeline:                 *)
(*   process_prn_sp3.py  read_sp3_for_prn, read_rinex_nav_for_prn,         *)
(*                       _select_eph_for_time, compute_ecef_from_nav,      *)
(*                       build_common_orbit, process_prn                   *)
(*   compare_orbits.py   compute_orbit_differences                         *)
(*   generate_times.py   generate_times                                    *)
(*                                                                         *)
(* Floating point numbers are modelled as exact rationals <<n, d>> in      *)
(* lowest terms with d > 0; <<0, 0>> is NaN.  Epochs are whole seconds     *)
(* counted from an arbitrary origin.  Text fields are sequences of         *)
(* one-character strings.                                                  *)
(***************************************************************************)
EXTENDS Integers, Sequences, FiniteSets, TLC

VARIABLES
    pc,             \* position of the running call
    err,            \* the exception that ended the call, "none" while none
    prn,            \* requested satellite identifier (argument)
    handles,        \* file handles currently open
    current_epoch,  \* read_sp3_for_prn: epoch of the last "*" line, -1 = None
    records,        \* read_sp3_for_prn: records appended so far
    seen,           \* TRUE once a P/V line of the requested satellite was read
    wf,             \* read_sp3_for_prn: whether the lines read are those of a valid file
    sp3_df,         \* the frame read_sp3_for_prn returned
    lines,          \* read_rinex_nav_for_prn: lines after END OF HEADER
    i,              \* read_rinex_nav_for_prn: loop index (0-based)
    eph_list,       \* read_rinex_nav_for_prn: ephemerides appended / returned
    matched,        \* 0-based indices of the lines the match test accepted
    step_seconds,   \* build_common_orbit: grid step (argument)
    time_index,     \* build_common_orbit: the grid
    k,              \* build_common_orbit: rows processed by the grid loop
    r_sp3,          \* OrbitData.r_sp3
    r_nav,          \* OrbitData.r_nav
    writes,         \* how often the grid loop assigned each row: <<sp3, nav>>
    comp,           \* OrbitComparison returned by compute_orbit_differences
    start_time,     \* generate_times: argument, seconds
    end_time,       \* generate_times: argument, seconds
    time_step,      \* generate_times: argument "step", seconds
    utcoffset,      \* offset of the local time zone of the process, seconds
    timestamps      \* generate_times: the list returned

vars == <<pc, err, prn, handles, current_epoch, records, seen, wf, sp3_df, lines, i,
          eph_list, matched, step_seconds, time_index, k, r_sp3, r_nav, writes,
          comp, start_time, end_time, time_step, utcoffset, timestamps>>

TimesVars == <<start_time, end_time, time_step, utcoffset, timestamps>>

-----------------------------------------------------------------------------
(* Bounds of the model.                                                    *)

MaxSp3Records == 3      \* records read_sp3_for_prn appends in one run
MaxNavRecords == 2      \* 8-line records in a navigation file
MaxRows == 3            \* rows of an OrbitData handed to the comparison

-----------------------------------------------------------------------------
(* Floats as rationals.                                                    *)

Abs(n) == IF n < 0 THEN -n ELSE n

RECURSIVE GCD(_, _)
GCD(a, b) == IF b = 0 THEN a ELSE GCD(b, a % b)

NaN == <<0, 0>>
IsNaN(x) == x[2] = 0
isfinite(x) == ~IsNaN(x)

Rat(n, d) ==
    IF d = 0 THEN NaN
    ELSE LET g == GCD(Abs(n), Abs(d))
             s == IF d < 0 THEN -1 ELSE 1
         IN  <<(s * n) \div g, (s * d) \div g>>

Flt(n) == <<n, 1>>

RAdd(x, y) == IF IsNaN(x) \/ IsNaN(y) THEN NaN
              ELSE Rat(x[1] * y[2] + y[1] * x[2], x[2] * y[2])
RSub(x, y) == IF IsNaN(x) \/ IsNaN(y) THEN NaN
              ELSE Rat(x[1] * y[2] - y[1] * x[2], x[2] * y[2])
RMul(x, y) == IF IsNaN(x) \/ IsNaN(y) THEN NaN
              ELSE Rat(x[1] * y[1], x[2] * y[2])
RDiv(x, y) == IF IsNaN(x) \/ IsNaN(y) THEN NaN
              ELSE Rat(x[1] * y[2], x[2] * y[1])
RLess(x, y) == x[1] * y[2] < y[1] * x[2]

VAdd(p, q) == <<RAdd(p[1], q[1]), RAdd(p[2], q[2]), RAdd(p[3], q[3])>>
VSub(p, q) == <<RSub(p[1], q[1]), RSub(p[2], q[2]), RSub(p[3], q[3])>>
VScale(c, p) == <<RMul(c, p[1]), RMul(c, p[2]), RMul(c, p[3])>>

ZeroRow == <<Flt(0), Flt(0), Flt(0)>>
NaNRow == <<NaN, NaN, NaN>>

-----------------------------------------------------------------------------
(* Text fields.                                                            *)

G05 == <<"G", "0", "5">>
G06 == <<"G", "0", "6">>

upper(s) == [j \in 1..Len(s) |-> IF s[j] = "g" THEN "G" ELSE s[j]]

RECURSIVE lstrip(_)
lstrip(s) == IF s # <<>> /\ Head(s) = " " THEN lstrip(Tail(s)) ELSE s

RECURSIVE rstrip(_)
rstrip(s) == IF s # <<>> /\ s[Len(s)] = " "
             THEN rstrip(SubSeq(s, 1, Len(s) - 1)) ELSE s

strip(s) == rstrip(lstrip(s))

startswith(s, c) == s # <<>> /\ s[1] = c

\* no padding at all
zfill_none(s, w) == s

RECURSIVE zfill(_, _)
zfill(s, w) == IF Len(s) >= w THEN s ELSE zfill(<<"0">> \o s, w)

-----------------------------------------------------------------------------
(* Inputs: the precise-orbit file, line by line.                           *)

Epochs == {0, 100, 150}          \* epochs an SP3 "*" line may carry
Sp3Sats == {G05, G06}            \* satellite codes of P/V lines
KmFields == {<<Flt(0), Flt(0), Flt(0)>>,      \* the three 14.6 fields, in km
             <<Rat(1, 10), Flt(0), Flt(0)>>}
Prns == {G05, <<"5">>}           \* identifiers a caller may request

NoField == <<>>
Sp3Line(kind, epoch, sat, km) == [kind |-> kind, epoch |-> epoch, sat |-> sat, km |-> km]

Sp3Lines ==
    {Sp3Line("blank", -1, NoField, NoField), Sp3Line("other", -1, NoField, NoField)}
    \cup {Sp3Line("*", e, NoField, NoField) : e \in Epochs}
    \cup {Sp3Line(m, -1, s, km) : m \in {"P", "V"}, s \in Sp3Sats, km \in KmFields}

-----------------------------------------------------------------------------
(* read_sp3_for_prn                                                        *)

KmToM(km) == VScale(Flt(1000), km)

SortedByTime(s) == \A a, b \in 1..Len(s) : a < b => s[a].time <= s[b].time

Perms(n) == {f \in [1..n -> 1..n] : \A a, b \in 1..n : a # b => f[a] # f[b]}

\* df.sort_index(): some ordering of the rows with the index ascending
\* (the default sort kind gives no promise about the order of equal keys).
sort_index(recs) ==
    {s \in {[j \in 1..Len(recs) |-> recs[f[j]]] : f \in Perms(Len(recs))} :
        SortedByTime(s)}

NavVars == <<lines, i, eph_list, matched>>
GridVars == <<step_seconds, time_index, k, r_sp3, r_nav, writes>>

Raise(e) == pc' = "failed" /\ err' = e

\* the exception class behind an outcome: lines 123 and 292 raise ValueError
ErrorKind(e) == IF e \in {"NoSp3Data", "NoNavEph"} THEN "ValueError" ELSE e

\* a with block that releases nothing
close_nothing(hs, h) == hs

\* leaving "with open(...) as f", by its end or by an exception
close(hs, h) == hs \ {h}

\* open(sp3_path, "r")
Sp3Open ==
    /\ pc = "call"
    /\ \/ pc' = "sp3_lines" /\ handles' = {"sp3"} /\ err' = err
       \/ Raise("IOError") /\ handles' = handles
    /\ UNCHANGED <<TimesVars, prn, current_epoch, records, seen, wf, sp3_df, NavVars, GridVars, comp>>

\* whether the lines of the requested satellite read so far are those of a
\* valid SP3 file: epochs ascending, and under one epoch at most one
\* position line, followed by at most one velocity line
WfStart == [ok |-> TRUE, kinds |-> {}]

WfAfter(w, line, epoch, id) ==
    IF line.kind = "*" THEN [ok |-> w.ok /\ epoch < line.epoch, kinds |-> {}]
    ELSE IF line.kind \in {"P", "V"} /\ strip(line.sat) = id THEN
        [ok |-> /\ w.ok
                /\ epoch # -1
                /\ line.kind \notin w.kinds
                /\ (line.kind = "V" => w.kinds = {"P"}),
         kinds |-> w.kinds \cup {line.kind}]
    ELSE w

\* one iteration of "for line in f"
Sp3ReadLine(line) ==
    /\ pc = "sp3_lines"
    /\ IF line.kind = "blank" THEN
            UNCHANGED <<current_epoch, records>>
       ELSE IF line.kind = "*" THEN
            /\ current_epoch' = line.epoch
            /\ UNCHANGED records
       ELSE IF line.kind \in {"P", "V"} /\ current_epoch # -1 THEN
            LET sat_prn == strip(line.sat) IN
            IF sat_prn # prn THEN
                UNCHANGED <<current_epoch, records>>
            ELSE
                /\ Len(records) < MaxSp3Records
                /\ records' = Append(records,
                        [time |-> current_epoch, pos |-> KmToM(line.km), sat |-> sat_prn])
                /\ UNCHANGED current_epoch
       ELSE
            UNCHANGED <<current_epoch, records>>
    /\ seen' = (seen \/ (line.kind \in {"P", "V"} /\ strip(line.sat) = prn))
    /\ wf' = WfAfter(wf, line, current_epoch, prn)
    /\ UNCHANGED <<TimesVars, pc, err, prn, handles, sp3_df, NavVars, GridVars, comp>>

\* reading the file fails inside the with block of line 78
Sp3ReadFails ==
    /\ pc = "sp3_lines"
    /\ Raise("IOError")
    /\ handles' = close(handles, "sp3")
    /\ UNCHANGED <<TimesVars, prn, current_epoch, records, seen, wf, sp3_df, NavVars, GridVars, comp>>

\* the check left out
Sp3Check_missing(recs) == "none"

\* lines 122-123: the check that ends the call when nothing was retained
Sp3Check(recs) == IF recs = <<>> THEN "NoSp3Data" ELSE "none"

\* end of file: the with block closes the handle, then lines 122-128
Sp3Return ==
    /\ pc = "sp3_lines"
    /\ handles' = close(handles, "sp3")
    /\ IF Sp3Check(records) # "none" THEN
            /\ Raise(Sp3Check(records))
            /\ UNCHANGED sp3_df
       ELSE
            /\ pc' = "sp3_returned"
            /\ sp3_df' \in sort_index(records)
            /\ err' = err
    /\ current_epoch' = -1
    /\ records' = <<>>
    /\ wf' = [wf EXCEPT !.kinds = {}]
    /\ UNCHANGED <<TimesVars, prn, seen, NavVars, GridVars, comp>>

-----------------------------------------------------------------------------
(* Inputs: the broadcast navigation file.                                  *)

Tocs == {0, 100}                 \* reference epochs a record may carry
NoEpoch == -1
Blank3 == <<" ", " ", " ">>

\* head: columns 0-3; epoch: the epoch of columns 3-22, NoEpoch when those
\* columns hold a "D"-exponent number instead; par: <<e, sqrt_a>> of
\* columns 22-41 and 60-79 when the line is the third of a record.
NavLine(text, head, epoch, par) == [text |-> text, head |-> head, epoch |-> epoch, par |-> par]

NavRecord(sat, toc, par) ==
    <<NavLine("data", sat, toc, NoField),
      NavLine("data", Blank3, NoEpoch, NoField),
      NavLine("data", Blank3, NoEpoch, par),
      NavLine("data", Blank3, NoEpoch, NoField),
      NavLine("data", Blank3, NoEpoch, NoField),
      NavLine("data", Blank3, NoEpoch, NoField),
      NavLine("data", Blank3, NoEpoch, NoField),
      NavLine("data", Blank3, NoEpoch, NoField)>>

\* records of the requested satellite (<<e, sqrt_a>>: a usable orbit,
\* sqrt_a = 0, e > 1) and one record of another satellite
NavRecords ==
    {NavRecord(G05, toc, <<0, 1>>) : toc \in Tocs}
    \cup {NavRecord(G05, 0, <<0, 0>>), NavRecord(G05, 100, <<2, 1>>)}
    \cup {NavRecord(G06, 0, <<0, 1>>)}

RECURSIVE Flatten(_)
Flatten(ss) == IF ss = <<>> THEN <<>> ELSE Head(ss) \o Flatten(Tail(ss))

NavBodies ==
    UNION {{Flatten(rs) : rs \in [1..n -> NavRecords]} : n \in 0..MaxNavRecords}

NavHeader == <<NavLine("label", Blank3, NoEpoch, NoField),
               NavLine("eoh", Blank3, NoEpoch, NoField)>>

\* complete files, files whose last record lost its last line, a file with a
\* blank line between header and records, and a file with no END OF HEADER
NavFiles ==
    {NavHeader \o b : b \in NavBodies}
    \cup {NavHeader \o SubSeq(b, 1, Len(b) - 1) : b \in NavBodies \ {<<>>}}
    \cup {NavHeader \o <<NavLine("blank", Blank3, NoEpoch, NoField)>>
            \o NavRecord(G05, 0, <<0, 1>>),
          <<NavLine("label", Blank3, NoEpoch, NoField)>> \o NavRecord(G05, 0, <<0, 1>>)}

-----------------------------------------------------------------------------
(* read_rinex_nav_for_prn                                                  *)

\* lines 183-188: the requested identifier, upper-cased, without a leading
\* "G", zero-padded to two characters (the argument is not stripped of blanks)
prn_num2(id) ==
    LET prn_clean == upper(id)
        prn_num == IF startswith(prn_clean, "G") THEN Tail(prn_clean) ELSE prn_clean
    IN  zfill(prn_num, 2)

\* lines 205-211: columns 0-3 of a line, stripped of blanks, without a
\* leading "G" or "g", zero-padded to two characters
sat_num2(head) ==
    LET sat_id_raw == strip(head)
        sat_num == IF startswith(upper(sat_id_raw), "G") THEN Tail(sat_id_raw)
                   ELSE sat_id_raw
    IN  zfill(sat_num, 2)

\* lines 192-195: consume up to and including END OF HEADER, keep the rest
AfterHeader(file) ==
    LET ends == {j \in 1..Len(file) : file[j].text = "eoh"}
    IN  IF ends = {} THEN <<>>
        ELSE LET first == CHOOSE j \in ends : \A m \in ends : j <= m
             IN  SubSeq(file, first + 1, Len(file))

\* list.sort(key=toc): stable insertion sort
RECURSIVE InsertByToc(_, _)
InsertByToc(s, e) ==
    IF s = <<>> THEN <<e>>
    ELSE IF s[Len(s)].toc <= e.toc THEN Append(s, e)
    ELSE Append(InsertByToc(SubSeq(s, 1, Len(s) - 1), e), s[Len(s)])

RECURSIVE SortByToc(_)
SortByToc(s) ==
    IF s = <<>> THEN <<>>
    ELSE InsertByToc(SortByToc(SubSeq(s, 1, Len(s) - 1)), s[Len(s)])

\* open(nav_path, "r")
NavOpen(file) ==
    /\ pc = "sp3_returned"
    /\ \/ pc' = "nav_header" /\ handles' = handles \cup {"nav"} /\ lines' = file
          /\ err' = err
       \/ Raise("IOError") /\ UNCHANGED <<handles, lines>>
    /\ wf' = WfStart
    /\ UNCHANGED <<TimesVars, prn, current_epoch, records, seen, sp3_df, i, eph_list, matched,
                   GridVars, comp>>

\* header skip and readlines(); the with block then closes the handle
NavReadLines ==
    /\ pc = "nav_header"
    /\ lines' = AfterHeader(lines)
    /\ handles' = close(handles, "nav")
    /\ i' = 0
    /\ eph_list' = <<>>
    /\ matched' = {}
    /\ pc' = "nav_loop"
    /\ UNCHANGED <<TimesVars, err, prn, current_epoch, records, seen, wf, sp3_df, GridVars, comp>>

\* line 213
match(line, id) == sat_num2(line.head) = prn_num2(id)

\* the body of "while i < len(lines)" for the line at index j (0-based):
\* the exception it raises, the next index, the list, and whether the
\* line passed the match test
NavIteration(ls, j, list, id) ==
    LET line == ls[j + 1]
    IN  IF line.text = "blank" THEN
            [raised |-> "none", i |-> j + 1, eph_list |-> list, match |-> FALSE]
        ELSE IF match(line, id) THEN
            IF line.epoch = NoEpoch THEN
                [raised |-> "ValueError", i |-> j, eph_list |-> list, match |-> TRUE]
            ELSE IF j + 7 >= Len(ls) THEN
                [raised |-> "IndexError", i |-> j, eph_list |-> list, match |-> TRUE]
            ELSE
                [raised |-> "none", i |-> j + 8,
                 eph_list |-> Append(list, [toc |-> line.epoch,
                                            e |-> ls[j + 3].par[1],
                                            sqrt_a |-> ls[j + 3].par[2]]),
                 match |-> TRUE]
        ELSE
            [raised |-> "none", i |-> j + 1, eph_list |-> list, match |-> FALSE]

\* reading the file fails inside the with block of line 190
NavReadFails ==
    /\ pc = "nav_header"
    /\ Raise("IOError")
    /\ handles' = close(handles, "nav")
    /\ UNCHANGED <<TimesVars, prn, current_epoch, records, seen, wf, sp3_df, NavVars, GridVars, comp>>

\* one iteration of "while i < len(lines)"
NavStep ==
    /\ pc = "nav_loop"
    /\ i < Len(lines)
    /\ LET r == NavIteration(lines, i, eph_list, prn)
       IN  /\ matched' = IF r.match THEN matched \cup {i} ELSE matched
           /\ i' = r.i
           /\ eph_list' = r.eph_list
           /\ IF r.raised # "none" THEN Raise(r.raised) ELSE UNCHANGED <<pc, err>>
    /\ UNCHANGED <<TimesVars, prn, handles, current_epoch, records, seen, wf, sp3_df, lines,
                   GridVars, comp>>

\* lines 290-294
NavReturn ==
    /\ pc = "nav_loop"
    /\ i >= Len(lines)
    /\ eph_list' = SortByToc(eph_list)
    /\ IF eph_list = <<>> THEN Raise("NoNavEph")
       ELSE pc' = "nav_returned" /\ err' = err
    /\ UNCHANGED <<TimesVars, prn, handles, current_epoch, records, seen, wf, sp3_df, lines, i,
                   matched, GridVars, comp>>

\* the loop of lines 197-288 run from index j to its end
RECURSIVE NavWalk(_, _, _, _)
NavWalk(ls, j, list, id) ==
    IF j >= Len(ls) THEN [raised |-> "none", eph_list |-> list]
    ELSE LET r == NavIteration(ls, j, list, id)
         IN  IF r.raised # "none" THEN [raised |-> r.raised, eph_list |-> list]
             ELSE NavWalk(ls, r.i, r.eph_list, id)

\* lines 197-294 as a function of the lines after the header and the
\* requested identifier: the exception raised, or the list returned
read_rinex_nav_for_prn(ls, id) ==
    LET w == NavWalk(ls, 0, <<>>, id)
    IN  IF w.raised # "none" THEN [raised |-> w.raised, value |-> <<>>]
        ELSE IF w.eph_list = <<>> THEN [raised |-> "NoNavEph", value |-> <<>>]
        ELSE [raised |-> "none", value |-> SortByToc(w.eph_list)]

-----------------------------------------------------------------------------
(* _select_eph_for_time                                                    *)

\* the first candidate instead of the last
select_first_candidate(list, t) ==
    LET Before(e) == e.toc <= t
        candidates == SelectSeq(list, Before)
    IN  IF candidates = <<>> THEN list[1] ELSE candidates[1]

_select_eph_for_time(list, t) ==
    LET Before(e) == e.toc <= t
        candidates == SelectSeq(list, Before)
    IN  IF candidates = <<>> THEN list[1]
        ELSE candidates[Len(candidates)]

-----------------------------------------------------------------------------
(* compute_ecef_from_nav                                                   *)

\* The outcome of the call: the exception it raises, or the position.
\* The parameters the model does not vary are fixed so that every angle is
\* zero at every epoch when e = 0 (no harmonic corrections, i0 = idot = 0,
\* m0 = w = omega0 = toe = 0, delta_n = -n0, omega_dot = OMEGA_E_DOT); the
\* position is then (a, 0, 0).  With e*e > 1 the square root of line 332 is
\* NaN and so is every coordinate.  With a = 0 the float division of
\* line 320 raises.
compute_ecef_from_nav(eph, t) ==
    LET a == eph.sqrt_a * eph.sqrt_a
    IN  IF a * a * a = 0 THEN [raised |-> "ZeroDivisionError", value |-> <<>>]
        ELSE IF 1 - eph.e * eph.e < 0 THEN [raised |-> "none", value |-> NaNRow]
        ELSE [raised |-> "none", value |-> <<Flt(a), Flt(0), Flt(0)>>]

-----------------------------------------------------------------------------
(* build_common_orbit                                                      *)

Steps == {50, 100}               \* step_seconds a caller may pass

\* a grid that starts one step before t_start
date_range_from_before(t_start, t_end, step) ==
    [j \in 1..((t_end - t_start) \div step + 2) |-> t_start + (j - 2) * step]

\* a grid that runs on to the first step at or past t_end
date_range_past_end(t_start, t_end, step) ==
    [j \in 1..((t_end - t_start + step - 1) \div step + 1) |-> t_start + (j - 1) * step]

\* pd.date_range(t_start, t_end, freq=step): t_start + j*step while <= t_end
date_range(t_start, t_end, step) ==
    [j \in 1..((t_end - t_start) \div step + 1) |-> t_start + (j - 1) * step]

index(df) == [j \in 1..Len(df) |-> df[j].time]

\* sp3_df.loc[t, ["X","Y","Z"]].to_numpy(): the rows labelled t
loc(df, t) ==
    LET At(r) == r.time = t
        rows == SelectSeq(df, At)
    IN  [j \in 1..Len(rows) |-> rows[j].pos]

\* lines 388-404: the value for r_sp3[k, :], or the ValueError numpy raises
\* when what is assigned is not one row of three numbers
Resample(df, t) ==
    LET Le(x) == x <= t
        Ge(x) == x >= t
        before == SelectSeq(index(df), Le)
        after == SelectSeq(index(df), Ge)
        One(rows) == IF Len(rows) = 1
                     THEN [raised |-> "none", value |-> rows[1]]
                     ELSE [raised |-> "ValueError", value |-> <<>>]
    IN  IF \E j \in 1..Len(df) : df[j].time = t THEN One(loc(df, t))
        ELSE IF before = <<>> \/ after = <<>> THEN [raised |-> "none", value |-> NaNRow]
        ELSE LET t0 == before[Len(before)]
                 t1 == after[1]
             IN  IF t0 = t1 THEN One(loc(df, t0))
                 ELSE LET f == RDiv(Flt(t - t0), Flt(t1 - t0))
                          p0 == loc(df, t0)
                          p1 == loc(df, t1)
                      IN  IF Len(p0) # 1 \/ Len(p1) # 1
                          THEN [raised |-> "ValueError", value |-> <<>>]
                          ELSE [raised |-> "none",
                                value |-> VAdd(VScale(RSub(Flt(1), f), p0[1]),
                                               VScale(f, p1[1]))]

\* one row too many
zeros_one_more(n) == [j \in 1..(n + 1) |-> ZeroRow]

\* np.zeros((n, 3))
zeros(n) == [j \in 1..n |-> ZeroRow]

\* lines 376-383
BuildStart(step) ==
    /\ pc = "nav_returned"
    /\ step_seconds' = step
    /\ time_index' = date_range(sp3_df[1].time, sp3_df[Len(sp3_df)].time, step)
    /\ r_sp3' = zeros(Len(time_index'))
    /\ r_nav' = zeros(Len(time_index'))
    /\ writes' = [j \in 1..Len(time_index') |-> <<0, 0>>]
    /\ k' = 0
    /\ pc' = "grid"
    /\ lines' = <<>> /\ i' = 0 /\ matched' = {}
    /\ UNCHANGED <<TimesVars, err, prn, handles, current_epoch, records, seen, wf, sp3_df,
                   eph_list, comp>>

\* one iteration of "for k, t in enumerate(time_index)"
GridStep ==
    /\ pc = "grid"
    /\ k < Len(time_index)
    /\ LET t == time_index[k + 1]
           sp3 == Resample(sp3_df, t)
           eph == _select_eph_for_time(eph_list, t)
           nav == compute_ecef_from_nav(eph, t)
       IN  IF sp3.raised # "none" THEN
                /\ Raise(sp3.raised)
                /\ UNCHANGED <<k, r_sp3, r_nav, writes>>
           ELSE IF nav.raised # "none" THEN
                /\ Raise(nav.raised)
                /\ r_sp3' = [r_sp3 EXCEPT ![k + 1] = sp3.value]
                /\ writes' = [writes EXCEPT ![k + 1] = <<@[1] + 1, @[2]>>]
                /\ UNCHANGED <<k, r_nav>>
           ELSE
                /\ r_sp3' = [r_sp3 EXCEPT ![k + 1] = sp3.value]
                /\ r_nav' = [r_nav EXCEPT ![k + 1] = nav.value]
                /\ writes' = [writes EXCEPT ![k + 1] = <<@[1] + 1, @[2] + 1>>]
                /\ k' = k + 1
                /\ UNCHANGED <<pc, err>>
    /\ UNCHANGED <<TimesVars, prn, handles, current_epoch, records, seen, wf, sp3_df, NavVars,
                   step_seconds, time_index, comp>>

\* line 410
BuildReturn ==
    /\ pc = "grid"
    /\ k = Len(time_index)
    /\ pc' = "done"
    /\ UNCHANGED <<TimesVars, err, prn, handles, current_epoch, records, seen, wf, sp3_df, NavVars,
                   GridVars, comp>>

-----------------------------------------------------------------------------
Init ==
    /\ pc = "call"
    /\ err = "none"
    /\ prn \in Prns
    /\ handles = {}
    /\ current_epoch = -1
    /\ records = <<>>
    /\ seen = FALSE
    /\ wf = WfStart
    /\ sp3_df = <<>>
    /\ lines = <<>>
    /\ i = 0
    /\ eph_list = <<>>
    /\ matched = {}
    /\ step_seconds = 0
    /\ time_index = <<>>
    /\ k = 0
    /\ r_sp3 = <<>>
    /\ r_nav = <<>>
    /\ writes = <<>>
    /\ comp = <<>>
    /\ start_time = 0
    /\ end_time = 0
    /\ time_step = 0
    /\ utcoffset = 0
    /\ timestamps = <<>>

Next ==
    \/ Sp3Open
    \/ \E line \in Sp3Lines : Sp3ReadLine(line)
    \/ Sp3ReadFails
    \/ Sp3Return
    \/ \E file \in NavFiles : NavOpen(file)
    \/ NavReadFails
    \/ NavReadLines
    \/ NavStep
    \/ NavReturn
    \/ \E step \in Steps : BuildStart(step)
    \/ GridStep
    \/ BuildReturn

Spec == Init /\ [][Next]_vars

-----------------------------------------------------------------------------
(* read_rinex_nav_for_prn called on its own.                               *)

\* identifiers a caller may request
NavRequests == {G05, <<"0", "5">>, <<"5">>, <<"g", "0", "5">>, G06, <<"G", "0", "0">>}

\* columns 0-3 of a record's first line: "G05", the two-column " 5", "G06"
NavHeads == {G05, <<" ", "5", " ">>, G06}

NavRecordsAny == {NavRecord(h, toc, <<0, 1>>) : h \in NavHeads, toc \in Tocs}

NavBodiesAny ==
    UNION {{Flatten(rs) : rs \in [1..n -> NavRecordsAny]} : n \in 0..MaxNavRecords}

\* files of whole 8-line records, files that end 1 to 7 lines early, and
\* files with a blank line after the header
NavFilesAny ==
    {NavHeader \o b : b \in NavBodiesAny}
    \cup {NavHeader \o SubSeq(b, 1, Len(b) - c) : b \in NavBodiesAny \ {<<>>}, c \in 1..7}
    \cup {NavHeader \o <<NavLine("blank", Blank3, NoEpoch, NoField)>> \o b :
            b \in NavBodiesAny}

InitNav ==
    /\ pc = "sp3_returned"
    /\ err = "none"
    /\ prn \in NavRequests
    /\ handles = {}
    /\ current_epoch = -1
    /\ records = <<>>
    /\ seen = FALSE
    /\ wf = WfStart
    /\ sp3_df = <<>>
    /\ lines = <<>>
    /\ i = 0
    /\ eph_list = <<>>
    /\ matched = {}
    /\ step_seconds = 0
    /\ time_index = <<>>
    /\ k = 0
    /\ r_sp3 = <<>>
    /\ r_nav = <<>>
    /\ writes = <<>>
    /\ comp = <<>>
    /\ start_time = 0
    /\ end_time = 0
    /\ time_step = 0
    /\ utcoffset = 0
    /\ timestamps = <<>>

NextNav ==
    \/ \E file \in NavFilesAny : NavOpen(file)
    \/ NavReadFails
    \/ NavReadLines
    \/ NavStep
    \/ NavReturn

SpecNav == InitNav /\ [][NextNav]_vars

-----------------------------------------------------------------------------
(* compute_orbit_differences                                               *)

\* rows an OrbitData may hold; every difference of a precise and a broadcast
\* row has a whole-number length, so that the norm stays rational
CmpSp3Rows == {<<Flt(0), Flt(0), Flt(0)>>, <<Flt(3), Flt(0), Flt(0)>>,
               <<Flt(3), Flt(4), Flt(0)>>, NaNRow}
CmpNavRows == {<<Flt(0), Flt(0), Flt(0)>>, <<Flt(3), Flt(0), Flt(0)>>, NaNRow}

\* np.sqrt: exact on squares of rationals, otherwise the root kept symbolic
sqrt(x) ==
    IF IsNaN(x) \/ x[1] < 0 THEN NaN
    ELSE LET rn == {r \in 0..x[1] : r * r = x[1]}
             rd == {r \in 1..x[2] : r * r = x[2]}
         IN  IF rn # {} /\ rd # {}
             THEN <<CHOOSE r \in rn : TRUE, CHOOSE r \in rd : TRUE>>
             ELSE <<x[1], x[2], "sqrt">>

\* np.linalg.norm of one row
norm(v) == sqrt(RAdd(RAdd(RMul(v[1], v[1]), RMul(v[2], v[2])), RMul(v[3], v[3])))

RECURSIVE Sum(_)
Sum(s) == IF s = <<>> THEN Flt(0) ELSE RAdd(Head(s), Sum(Tail(s)))

RECURSIVE Largest(_)
Largest(s) ==
    IF Len(s) = 1 THEN s[1]
    ELSE LET m == Largest(Tail(s)) IN IF RLess(s[1], m) THEN m ELSE s[1]

\* np.nanmax: ValueError on an empty array, the maximum of the numbers
nanmax(s) ==
    LET nums == SelectSeq(s, isfinite)
    IN  IF s = <<>> THEN [raised |-> "ValueError", value |-> NaN]
        ELSE IF nums = <<>> THEN [raised |-> "none", value |-> NaN]
        ELSE [raised |-> "none", value |-> Largest(nums)]

\* np.nanmean: NaN (and a warning) when there is no number to average
nanmean(s) ==
    LET nums == SelectSeq(s, isfinite)
    IN  IF nums = <<>> THEN NaN ELSE RDiv(Sum(nums), Flt(Len(nums)))

Differences(sp3, nav) == [j \in 1..Len(sp3) |-> VSub(sp3[j], nav[j])]

Column(d, c) == [j \in 1..Len(d) |-> d[j][c]]

\* lines 29-51
compute_orbit_differences ==
    /\ pc = "cmp_call"
    /\ LET d == Differences(r_sp3, r_nav)
           d3d == [j \in 1..Len(d) |-> norm(d[j])]
           d3d_valid == SelectSeq(d3d, isfinite)
           squares == [j \in 1..Len(d3d_valid) |-> RMul(d3d_valid[j], d3d_valid[j])]
           max_3d == nanmax(d3d_valid)
       IN  IF max_3d.raised # "none" THEN
                /\ Raise(max_3d.raised)
                /\ UNCHANGED comp
           ELSE
                /\ comp' = [time |-> time_index,
                            dX |-> Column(d, 1),
                            dY |-> Column(d, 2),
                            dZ |-> Column(d, 3),
                            d3d |-> d3d,
                            stats |-> [max_3d |-> max_3d.value,
                                       rms_3d |-> sqrt(nanmean(squares)),
                                       mean_3d |-> nanmean(d3d_valid)]]
                /\ pc' = "cmp_returned"
                /\ err' = err
    /\ UNCHANGED <<TimesVars, prn, handles, current_epoch, records, seen, wf, sp3_df, NavVars,
                   step_seconds, time_index, k, r_sp3, r_nav, writes>>

\* an OrbitData of up to MaxRows rows handed to compute_orbit_differences
InitCmp ==
    /\ pc = "cmp_call"
    /\ err = "none"
    /\ prn = G05
    /\ handles = {}
    /\ current_epoch = -1
    /\ records = <<>>
    /\ seen = FALSE
    /\ wf = WfStart
    /\ sp3_df = <<>>
    /\ lines = <<>>
    /\ i = 0
    /\ eph_list = <<>>
    /\ matched = {}
    /\ step_seconds = 300
    /\ \E n \in 0..MaxRows :
        /\ time_index = [j \in 1..n |-> (j - 1) * 300]
        /\ r_sp3 \in [1..n -> CmpSp3Rows]
        /\ r_nav \in [1..n -> CmpNavRows]
        /\ writes = [j \in 1..n |-> <<1, 1>>]
        /\ k = n
    /\ comp = <<>>
    /\ start_time = 0
    /\ end_time = 0
    /\ time_step = 0
    /\ utcoffset = 0
    /\ timestamps = <<>>

NextCmp == compute_orbit_differences

SpecCmp == InitCmp /\ [][NextCmp]_vars

-----------------------------------------------------------------------------
(* generate_times                                                          *)

\* Timestamps are whole seconds, so int(value / 1e9) of lines 27-28 is the
\* number of seconds itself.
TimeStarts == {0, 30}
TimeEnds == {0, 30, 50, 60, 90, 100}
TimeSteps == {7, 20, 30}
UtcOffsets == {0, 3600}          \* a process running in UTC, in UTC+1

\* np.arange(start, stop, step), step > 0: start + j*step while < stop
arange(start, stop, step) ==
    IF stop <= start THEN <<>>
    ELSE [j \in 1..((stop - start + step - 1) \div step) |-> start + (j - 1) * step]

\* pd.Timestamp.fromtimestamp(t): the naive local time of POSIX time t
fromtimestamp(t, offset) == t + offset

generate_times ==
    /\ pc = "times_call"
    /\ LET start_ns == start_time
           end_ns == end_time
           times == arange(start_ns, end_ns + time_step, time_step)
       IN  timestamps' = [j \in 1..Len(times) |-> fromtimestamp(times[j], utcoffset)]
    /\ pc' = "times_returned"
    /\ UNCHANGED <<err, prn, handles, current_epoch, records, seen, wf, sp3_df, NavVars,
                   GridVars, comp, start_time, end_time, time_step, utcoffset>>

InitTimes ==
    /\ pc = "times_call"
    /\ err = "none"
    /\ prn = G05
    /\ handles = {}
    /\ current_epoch = -1
    /\ records = <<>>
    /\ seen = FALSE
    /\ wf = WfStart
    /\ sp3_df = <<>>
    /\ lines = <<>>
    /\ i = 0
    /\ eph_list = <<>>
    /\ matched = {}
    /\ step_seconds = 0
    /\ time_index = <<>>
    /\ k = 0
    /\ r_sp3 = <<>>
    /\ r_nav = <<>>
    /\ writes = <<>>
    /\ comp = <<>>
    /\ start_time \in TimeStarts
    /\ end_time \in {t \in TimeEnds : start_time <= t}
    /\ time_step \in TimeSteps
    /\ utcoffset \in UtcOffsets
    /\ timestamps = <<>>

NextTimes == generate_times

SpecTimes == InitTimes /\ [][NextTimes]_vars

-----------------------------------------------------------------------------
(* Properties.                                                             *)

QueryEpochs == {-50, 0, 50, 100, 150, 200}

EpochsOf(df) == {df[j].time : j \in 1..Len(df)}
MinOf(S) == CHOOSE x \in S : \A y \in S : x <= y
MaxOf(S) == CHOOSE x \in S : \A y \in S : y <= x

\* build_common_orbit has set up its grid (and is looping, has returned, or
\* was ended by an exception in the loop)
Built == pc \in {"grid", "done"} \/ (pc = "failed" /\ time_index # <<>>)

\* rows the grid loop has taken up: the finished ones and the one that raised
Attempted == 1..(IF pc = "failed" THEN k + 1 ELSE k)

\* C1: on a series returned by the broadcast reader (non-empty, ascending by
\* toc) and for every query epoch t, _select_eph_for_time returns an entry of
\* the series with the largest toc <= t, and the first entry of the series,
\* which is the earliest, when t precedes every toc.
C1_SelectLatestNotAfter ==
    pc \in {"nav_returned", "grid", "done"} =>
        /\ eph_list # <<>>
        /\ \A a, b \in 1..Len(eph_list) : a < b => eph_list[a].toc <= eph_list[b].toc
        /\ \A t \in QueryEpochs :
            LET r == _select_eph_for_time(eph_list, t)
                le == {j \in 1..Len(eph_list) : eph_list[j].toc <= t}
            IN  IF le = {}
                THEN /\ r = eph_list[1]
                     /\ \A j \in 1..Len(eph_list) : r.toc <= eph_list[j].toc
                ELSE /\ \E j \in le : r = eph_list[j]
                     /\ \A j \in le : eph_list[j].toc <= r.toc

\* C1 witness: the grid loop is about to select, at an epoch not before the
\* later of two reference epochs, from a series of two different entries.
C1_Witness ==
    /\ pc = "grid"
    /\ k < Len(time_index)
    /\ Len(eph_list) = 2
    /\ eph_list[1].toc < eph_list[2].toc
    /\ eph_list[2].toc <= time_index[k + 1]
    /\ _select_eph_for_time(eph_list, time_index[k + 1]) = eph_list[2]

\* C2 (as claimed): for a valid precise-orbit file the series
\* read_sp3_for_prn returns has strictly increasing epochs and holds only
\* records of the requested satellite.
C2_StrictlyIncreasing ==
    (pc = "sp3_returned" /\ wf.ok) =>
        /\ \A a, b \in 1..Len(sp3_df) : a < b => sp3_df[a].time < sp3_df[b].time
        /\ \A j \in 1..Len(sp3_df) : sp3_df[j].sat = prn

\* C3 (as claimed): the grid starts at the first precise epoch, is spaced by
\* step_seconds and ends with the last precise epoch.
C3_GridEndsAtLastEpoch ==
    Built =>
        /\ time_index # <<>>
        /\ time_index[1] = MinOf(EpochsOf(sp3_df))
        /\ \A j \in 1..(Len(time_index) - 1) :
                time_index[j + 1] - time_index[j] = step_seconds
        /\ time_index[Len(time_index)] = MaxOf(EpochsOf(sp3_df))

\* C3 (amended): the grid starts at the first precise epoch, is spaced by
\* step_seconds, and ends with the last epoch of that progression that is not
\* after the last precise epoch; the last precise epoch is a grid epoch
\* exactly when the span is a whole multiple of the step.
C3_GridWithinSpan ==
    Built =>
        LET first == MinOf(EpochsOf(sp3_df))
            last == MaxOf(EpochsOf(sp3_df))
            end == time_index[Len(time_index)]
        IN  /\ time_index # <<>>
            /\ time_index[1] = first
            /\ \A j \in 1..(Len(time_index) - 1) :
                    time_index[j + 1] - time_index[j] = step_seconds
            /\ end <= last
            /\ last < end + step_seconds
            /\ (end = last) <=> ((last - first) % step_seconds = 0)

\* C3 witness: a grid of two or more epochs over a span that is not a whole
\* multiple of the step.
C3_Witness ==
    /\ pc = "grid"
    /\ Len(time_index) >= 2
    /\ (MaxOf(EpochsOf(sp3_df)) - MinOf(EpochsOf(sp3_df))) % step_seconds # 0

\* C4: while the grid loop runs both matrices have one row per grid epoch,
\* the rows already passed were each assigned once and the others not yet;
\* when build_common_orbit returns every row was assigned exactly once.
C4_RowsWrittenOnce ==
    pc \in {"grid", "done"} =>
        /\ Len(r_sp3) = Len(time_index)
        /\ Len(r_nav) = Len(time_index)
        /\ pc = "done" => k = Len(time_index)
        /\ \A j \in 1..Len(time_index) :
                writes[j] = IF j <= k THEN <<1, 1>> ELSE <<0, 0>>

\* C4 witness: build_common_orbit returned a grid of four epochs.
C4_Witness ==
    /\ pc = "done"
    /\ Len(time_index) = 4
    /\ \A j \in 1..4 : writes[j] = <<1, 1>>

\* C5 (as claimed): for every grid epoch the loop took up that equals a
\* precise epoch, the row was assigned and equals the position of the record
\* (of every record) at that epoch.
C5_ExactMatchCopied ==
    Built =>
        \A j \in Attempted :
            time_index[j] \in EpochsOf(sp3_df) =>
                /\ writes[j][1] = 1
                /\ \A m \in 1..Len(sp3_df) :
                        sp3_df[m].time = time_index[j] => r_sp3[j] = sp3_df[m].pos

\* C6 (as claimed): for every grid epoch t the loop took up that is not a
\* precise epoch, the row was assigned (1-f)*p0 + f*p1 in each component,
\* p0 and p1 being the positions at the nearest precise epochs t0 before and
\* t1 after t, and f = (t-t0)/(t1-t0).
C6_LinearInterpolation ==
    Built =>
        \A j \in Attempted :
            LET t == time_index[j]
                ep == EpochsOf(sp3_df)
            IN  t \notin ep =>
                    /\ {e \in ep : e < t} # {}
                    /\ {e \in ep : e > t} # {}
                    /\ writes[j][1] = 1
                    /\ LET t0 == MaxOf({e \in ep : e < t})
                           t1 == MinOf({e \in ep : e > t})
                       IN  \A a, b \in 1..Len(sp3_df) :
                            (sp3_df[a].time = t0 /\ sp3_df[b].time = t1) =>
                                \A c \in 1..3 :
                                    r_sp3[j][c] =
                                        RDiv(RAdd(RMul(Flt(t1 - t), sp3_df[a].pos[c]),
                                                  RMul(Flt(t - t0), sp3_df[b].pos[c])),
                                             Flt(t1 - t0))

\* Supports C6: the same with "was assigned" dropped, that is, for the rows
\* the loop did assign; it holds, so the rule of C6 fails only where the
\* assignment raises.
C6_AssignedRowsInterpolated ==
    Built =>
        \A j \in 1..Len(time_index) :
            LET t == time_index[j]
                ep == EpochsOf(sp3_df)
            IN  (t \notin ep /\ writes[j][1] = 1) =>
                    LET t0 == MaxOf({e \in ep : e < t})
                        t1 == MinOf({e \in ep : e > t})
                    IN  \A a, b \in 1..Len(sp3_df) :
                            (sp3_df[a].time = t0 /\ sp3_df[b].time = t1) =>
                                \A c \in 1..3 :
                                    r_sp3[j][c] =
                                        RDiv(RAdd(RMul(Flt(t1 - t), sp3_df[a].pos[c]),
                                                  RMul(Flt(t - t0), sp3_df[b].pos[c])),
                                             Flt(t1 - t0))

\* Supports C6: the example of the claim, (0,0,0) at t=0 and (100,0,0) at
\* t=100 resampled at t=50.
C6_MidpointExample ==
    /\ pc = "done"
    /\ Len(sp3_df) = 2
    /\ sp3_df[1].time = 0 /\ sp3_df[1].pos = <<Flt(0), Flt(0), Flt(0)>>
    /\ sp3_df[2].time = 100 /\ sp3_df[2].pos = <<Flt(100), Flt(0), Flt(0)>>
    /\ time_index = <<0, 50, 100>>
    /\ r_sp3[2] = <<Flt(50), Flt(0), Flt(0)>>

RECURSIVE SumAt(_, _)
SumAt(vals, S) ==
    IF S = {} THEN Flt(0)
    ELSE LET j == CHOOSE x \in S : TRUE IN RAdd(vals[j], SumAt(vals, S \ {j}))

FiniteAt(vals) == {j \in 1..Len(vals) : ~IsNaN(vals[j])}

\* what compute_orbit_differences is to return for the OrbitData at hand
RowDifferenceOk(j) ==
    /\ comp.dX[j] = RSub(r_sp3[j][1], r_nav[j][1])
    /\ comp.dY[j] = RSub(r_sp3[j][2], r_nav[j][2])
    /\ comp.dZ[j] = RSub(r_sp3[j][3], r_nav[j][3])
    /\ IF IsNaN(comp.dX[j]) \/ IsNaN(comp.dY[j]) \/ IsNaN(comp.dZ[j])
       THEN IsNaN(comp.d3d[j])
       ELSE /\ ~IsNaN(comp.d3d[j])
            /\ comp.d3d[j][1] >= 0
            /\ RMul(comp.d3d[j], comp.d3d[j]) =
                    RAdd(RAdd(RMul(comp.dX[j], comp.dX[j]), RMul(comp.dY[j], comp.dY[j])),
                         RMul(comp.dZ[j], comp.dZ[j]))

StatsOverFinite ==
    LET F == FiniteAt(comp.d3d)
        sq == [j \in 1..Len(comp.d3d) |-> RMul(comp.d3d[j], comp.d3d[j])]
    IN  F # {} =>
            /\ \E j \in F : comp.stats.max_3d = comp.d3d[j]
            /\ \A j \in F : ~RLess(comp.stats.max_3d, comp.d3d[j])
            /\ comp.stats.mean_3d = RDiv(SumAt(comp.d3d, F), Flt(Cardinality(F)))
            /\ comp.stats.rms_3d = sqrt(RDiv(SumAt(sq, F), Flt(Cardinality(F))))

ComparisonOk ==
    /\ Len(comp.dX) = Len(time_index)
    /\ Len(comp.dY) = Len(time_index)
    /\ Len(comp.dZ) = Len(time_index)
    /\ Len(comp.d3d) = Len(time_index)
    /\ comp.time = time_index
    /\ \A j \in 1..Len(time_index) : RowDifferenceOk(j)
    /\ StatsOverFinite

\* an OrbitData of at least one epoch whose precise rows are all finite
PreciseFinite ==
    /\ time_index # <<>>
    /\ \A j \in 1..Len(r_sp3) : \A c \in 1..3 : ~IsNaN(r_sp3[j][c])

\* C7 (as claimed): compute_orbit_differences never raises, and when no
\* epoch has a finite d3d the three statistics it returns are NaN (stated
\* for the OrbitData whose precise rows are finite).
C7_ComparisonTotal ==
    PreciseFinite =>
        /\ pc # "failed"
        /\ (pc = "cmp_returned" /\ FiniteAt(comp.d3d) = {}) =>
                /\ IsNaN(comp.stats.max_3d)
                /\ IsNaN(comp.stats.rms_3d)
                /\ IsNaN(comp.stats.mean_3d)

\* C8 (as claimed): for every OrbitData the call returns, with dX, dY, dZ =
\* precise - broadcast and d3d their norm, one entry per grid epoch, and
\* max_3d, mean_3d, rms_3d the maximum, mean and root mean square of the
\* finite entries of d3d (stated for the OrbitData whose precise rows are
\* finite).
C8_DifferencesAndStatistics ==
    (PreciseFinite /\ pc # "cmp_call") => (pc = "cmp_returned" /\ ComparisonOk)

\* Supports C8: whenever the call returns, what it returns is as C8 says; so
\* C8 fails only where the call raises.
C8_ReturnedComparisonOk ==
    pc = "cmp_returned" => ComparisonOk

\* Supports C8: the example of the claim, d3d = [3, 4, 5].
C8_StatisticsExample ==
    /\ pc = "cmp_returned"
    /\ comp.d3d = <<Flt(3), Flt(4), Flt(5)>>
    /\ comp.stats.max_3d = Flt(5)
    /\ comp.stats.mean_3d = Flt(4)
    /\ comp.stats.rms_3d = sqrt(Rat(50, 3))

\* Supports C8: a non-finite epoch beside d3d = 3 and 5 leaves the
\* statistics those of [3, 5].
C8_NaNEpochIgnored ==
    /\ pc = "cmp_returned"
    /\ comp.d3d = <<Flt(3), NaN, Flt(5)>>
    /\ comp.stats.max_3d = Flt(5)
    /\ comp.stats.mean_3d = Flt(4)
    /\ comp.stats.rms_3d = sqrt(Flt(17))

\* C9 (as claimed): no call of build_common_orbit is ended by
\* compute_ecef_from_nav, and every row the grid loop took up and whose
\* precise side it assigned has its broadcast side assigned as well, with a
\* position of three components.
C9_PropagatorNeverRaises ==
    /\ err # "ZeroDivisionError"
    /\ Built =>
            \A j \in Attempted :
                writes[j][1] = 1 => (writes[j][2] = 1 /\ Len(r_nav[j]) = 3)

\* read_sp3_for_prn has run to its end; read_rinex_nav_for_prn has ended
\* process_prn by an exception other than that of opening the file
Sp3ReadToEnd == pc \notin {"call", "sp3_lines"} /\ ~(err = "IOError" /\ sp3_df = <<>>)
NavFailed == pc = "failed" /\ sp3_df # <<>> /\ time_index = <<>> /\ err # "IOError"

\* C10: when no line of the precise file names the requested satellite,
\* read_sp3_for_prn ends with "no data found"; when no line of the broadcast
\* file matches it, read_rinex_nav_for_prn ends with "no ephemeris found";
\* either ends process_prn, which then holds no grid and no matrices; and a
\* reader that returns returns a series with at least one entry.
C10_AbsentSatelliteFails ==
    /\ (Sp3ReadToEnd /\ ~seen) => (pc = "failed" /\ err = "NoSp3Data")
    /\ (NavFailed /\ matched = {}) => err = "NoNavEph"
    /\ pc = "nav_returned" => (matched # {} /\ eph_list # <<>>)
    /\ err \in {"NoSp3Data", "NoNavEph"} =>
            /\ pc = "failed"
            /\ time_index = <<>> /\ r_sp3 = <<>> /\ r_nav = <<>>
    /\ err = "NoSp3Data" => (sp3_df = <<>> /\ eph_list = <<>>)
    /\ pc \in {"sp3_returned", "nav_header", "nav_loop", "nav_returned", "grid", "done"} =>
            sp3_df # <<>>
    /\ pc \in {"grid", "done"} => eph_list # <<>>

\* C10 witness: the precise file held the satellite, the broadcast file held
\* records of another satellite only, and process_prn failed with
\* "no ephemeris found".
C10_Witness ==
    /\ pc = "failed"
    /\ err = "NoNavEph"
    /\ seen
    /\ sp3_df # <<>>
    /\ Len(lines) >= 8
    /\ matched = {}
    /\ time_index = <<>>


-----------------------------------------------------------------------------
(* Identifier matching of read_rinex_nav_for_prn (SpecNav).                *)

SameRequests == {G05, <<"0", "5">>, <<"5">>}

\* read_rinex_nav_for_prn has ended, other than by failing to open the file
NavEnded == pc \in {"nav_returned", "failed"} /\ err # "IOError"

\* C11: the requested identifier and the satellite field of a line are
\* normalized by the same rule (the field of a line gives what the same text
\* gives as a request), a line is matched exactly when the two normalized
\* forms are equal, "G05", "05" and "5" all normalize to "05", and the call
\* for any of the three ends as the call for "G05" ends on the same file:
\* with the same exception, or returning the same list.
C11_SameNormalization ==
    /\ \A h \in NavHeads : sat_num2(h) = prn_num2(strip(h))
    /\ prn \in SameRequests => prn_num2(prn) = <<"0", "5">>
    /\ pc \in {"nav_loop", "nav_returned"} =>
            /\ \A j \in matched : sat_num2(lines[j + 1].head) = prn_num2(prn)
            /\ \A j \in 0..(i - 1) :
                    (/\ j < Len(lines)
                     /\ lines[j + 1].text # "blank"
                     /\ sat_num2(lines[j + 1].head) = prn_num2(prn)) =>
                        \E m \in matched : m <= j /\ j <= m + 7
    /\ (NavEnded /\ prn \in SameRequests) =>
            /\ err = read_rinex_nav_for_prn(lines, G05).raised
            /\ pc = "nav_returned" => eph_list = read_rinex_nav_for_prn(lines, G05).value

\* the request "5" returned the two records of a file that names the
\* satellite "G05" in one record and " 5" in the other
C11_Witness ==
    /\ pc = "nav_returned"
    /\ prn = <<"5">>
    /\ Len(eph_list) = 2
    /\ {lines[j + 1].head : j \in matched} = {G05, <<" ", "5", " ">>}


-----------------------------------------------------------------------------
(* The record-walking loop of read_rinex_nav_for_prn (SpecNav).            *)

\* the lines after the header are whole 8-line records: every eighth line,
\* and no other, carries a satellite field and an epoch
WholeRecords(ls) ==
    /\ Len(ls) % 8 = 0
    /\ \A j \in 0..(Len(ls) - 1) :
            /\ ls[j + 1].text = "data"
            /\ (j % 8 = 0) <=> (ls[j + 1].epoch # NoEpoch)

\* 0-based indices of the first lines of the records of satellite id
RecordsOf(ls, id) ==
    {j \in 0..(Len(ls) - 1) : j % 8 = 0 /\ sat_num2(ls[j + 1].head) = prn_num2(id)}

\* the loop is running or has ended on a file of whole records
WalkingRecords ==
    /\ pc \in {"nav_loop", "nav_returned", "failed"}
    /\ err # "IOError"
    /\ WholeRecords(lines)

LoopAligned ==
    /\ matched \subseteq RecordsOf(lines, prn)
    /\ err \in {"none", "NoNavEph"}
    /\ (pc = "nav_loop" /\ i >= Len(lines)) \/ pc \in {"nav_returned", "failed"} =>
            /\ matched = RecordsOf(lines, prn)
            /\ Len(eph_list) = Cardinality(RecordsOf(lines, prn))

\* C12: on a file of 8-line records and for every requested identifier,
\* the lines that pass the match test and are parsed as record headers are
\* first lines of records of the requested satellite only, the loop raises
\* nothing, and at its end it has produced one parameter set per such record.
C12_OnlyRecordHeadersParsed == WalkingRecords => LoopAligned

\* the same for the requests whose normalized form is not "00", the form
\* the blank columns 0-3 of the lines 2-8 of a record normalize to
C12_AlignedUnlessZero ==
    (WalkingRecords /\ prn_num2(prn) # <<"0", "0">>) => LoopAligned

\* after a matched line the index moves on by 8, after any other line by 1
C12_IndexSteps ==
    [][(pc = "nav_loop" /\ pc' = "nav_loop") =>
            i' = IF i \in matched' THEN i + 8 ELSE i + 1]_vars

\* the loop skipped a record of another satellite line by line and then
\* parsed the record of the requested one
C12_SkipThenMatch ==
    /\ pc = "nav_returned"
    /\ WholeRecords(lines)
    /\ Len(lines) = 16
    /\ matched = {8}


-----------------------------------------------------------------------------
(* File handles of one process_prn invocation (Spec).                      *)

\* C13: the precise file is open exactly while read_sp3_for_prn reads it and
\* the broadcast file exactly while read_rinex_nav_for_prn reads it, which is
\* after read_sp3_for_prn has returned its series; the two are never open
\* together; and once the invocation has ended, by returning or by an
\* exception at any step, no handle is open.
C13_HandlesSequential ==
    /\ Cardinality(handles) <= 1
    /\ ("sp3" \in handles) <=> (pc = "sp3_lines")
    /\ ("nav" \in handles) <=> (pc = "nav_header")
    /\ "nav" \in handles => (sp3_df # <<>> /\ err = "none")
    /\ (pc = "failed" /\ sp3_df = <<>>) => lines = <<>>
    /\ pc \in {"failed", "done"} => handles = {}

\* reading the broadcast file failed while it was open
C13_Witness ==
    /\ pc = "failed"
    /\ err = "IOError"
    /\ sp3_df # <<>>
    /\ lines # <<>>
    /\ handles = {}


-----------------------------------------------------------------------------
(* Truncated records (SpecNav).                                            *)

\* a line matching the request was followed by fewer than 7 further lines
TruncatedMatch == \E j \in matched : j + 7 >= Len(lines)

\* C14: when a line matching the requested satellite is followed by fewer
\* than 7 further lines, read_rinex_nav_for_prn fails, and with an exception
\* of the kind it raises for an absent satellite; it returns no series.
C14_TruncatedRecordIsParseError ==
    (pc \in {"nav_loop", "nav_returned", "failed"} /\ err # "IOError" /\ TruncatedMatch) =>
        /\ pc = "failed"
        /\ ErrorKind(err) = ErrorKind("NoNavEph")

\* a truncated record never yields a returned series
C14_NoPartialSeries == TruncatedMatch => pc = "failed"

\* the call ended on a truncated record that followed a whole one
C14_TruncatedAfterWhole ==
    /\ pc = "failed"
    /\ TruncatedMatch
    /\ Len(eph_list) = 1


-----------------------------------------------------------------------------
(* generate_times (SpecTimes).                                             *)

Regular(ts, step) == \A j \in 1..(Len(ts) - 1) : ts[j + 1] - ts[j] = step

\* C15: the list returned starts with start_time, its consecutive elements
\* are step seconds apart, and every element lies between start_time and
\* end_time.
C15_TimesWithinRange ==
    pc = "times_returned" =>
        /\ timestamps # <<>>
        /\ timestamps[1] = start_time
        /\ Regular(timestamps, time_step)
        /\ \A j \in 1..Len(timestamps) :
                start_time <= timestamps[j] /\ timestamps[j] <= end_time

\* what does hold: in a process running in UTC the list starts with
\* start_time, is regular, and ends with the first element at or after
\* end_time, which is later than end_time unless the span is a multiple of
\* the step
C15_RunsToFirstAtOrAfterEnd ==
    (pc = "times_returned" /\ utcoffset = 0) =>
        /\ timestamps # <<>>
        /\ timestamps[1] = start_time
        /\ Regular(timestamps, time_step)
        /\ timestamps[Len(timestamps)] >= end_time
        /\ timestamps[Len(timestamps)] < end_time + time_step
        /\ (timestamps[Len(timestamps)] = end_time) <=>
                ((end_time - start_time) % time_step = 0)

\* start 0, end 50, step 30 in UTC: 0, 30, 60
C15_Overshoot ==
    /\ pc = "times_returned"
    /\ utcoffset = 0
    /\ start_time = 0 /\ end_time = 50 /\ time_step = 30
    /\ timestamps = <<0, 30, 60>>


-----------------------------------------------------------------------------
(* Coverage of the grid by the precise series (Spec).                      *)

\* lines 391-401 at grid epoch t: a preceding and a following precise epoch
\* exist, and when t is no precise epoch they enclose it strictly
Bracketed(df, t) ==
    LET Le(x) == x <= t
        Ge(x) == x >= t
        before == SelectSeq(index(df), Le)
        after == SelectSeq(index(df), Ge)
    IN  /\ before # <<>>
        /\ after # <<>>
        /\ t \notin EpochsOf(df) =>
                LET t0 == before[Len(before)]
                    t1 == after[1]
                    f == RDiv(Flt(t - t0), Flt(t1 - t0))
                IN  /\ t0 < t /\ t < t1
                    /\ RLess(Flt(0), f) /\ RLess(f, Flt(1))

\* C16: every grid epoch lies between the first and the last precise epoch,
\* so it has a preceding and a following precise epoch; a grid epoch that is
\* no precise epoch lies strictly between the two, with 0 < f < 1; and no
\* row the grid loop has completed holds a missing value.
C16_NoGridEpochMissing ==
    Built =>
        /\ \A j \in 1..Len(time_index) :
                /\ MinOf(EpochsOf(sp3_df)) <= time_index[j]
                /\ time_index[j] <= MaxOf(EpochsOf(sp3_df))
                /\ Bracketed(sp3_df, time_index[j])
        /\ \A j \in 1..k : \A c \in 1..3 : isfinite(r_sp3[j][c])

\* an OrbitData was returned whose last grid epoch is no precise epoch and
\* precedes the last precise epoch
C16_Witness ==
    /\ pc = "done"
    /\ Len(time_index) >= 2
    /\ time_index[Len(time_index)] \notin EpochsOf(sp3_df)
    /\ time_index[Len(time_index)] < MaxOf(EpochsOf(sp3_df))

=============================================================================
